---- MODULE Spec2Model ----
(***************************************************************************)
(* Model of src/src/extract_audio.py: the time-specification parser,       *)
(* the time-to-seconds converter, the time-range validator and the         *)
(* `local` / `url` command handlers that call them.                        *)
(*                                                                         *)
(* A Python str is a sequence of one-character strings; the token U3       *)
(* stands for one non-ASCII decimal digit (U+0663), which Python's \d,     *)
(* int() and float() take as a digit and [0-9] does not.  An absent        *)
(* (None) argument is the value None.  A float is a record                 *)
(* [ok, num, exp] standing for num / 10^exp, so that sums are exact.       *)
(***************************************************************************)
EXTENDS Integers, Sequences, FiniteSets, TLC

\* ------------------------------------------------------------------ bounds
\* Longest input drawn from the whole of SmallAlphabet.
MaxLen == 4

\* ------------------------------------------------------------ characters
U3 == "U+0663"

AsciiDigits == {"0", "1", "2", "3", "4", "5", "6", "7", "8", "9"}

\* Python's \d on str patterns: any Unicode decimal digit.
DecDigits == AsciiDigits \cup {U3}

\* str.strip() and the blanks int() / float() skip.
Whitespace == {" ", "\n"}

DigitVal(c) ==
    CASE c = "0" -> 0 [] c = "1" -> 1 [] c = "2" -> 2 [] c = "3" -> 3
      [] c = "4" -> 4 [] c = "5" -> 5 [] c = "6" -> 6 [] c = "7" -> 7
      [] c = "8" -> 8 [] c = "9" -> 9 [] c = U3 -> 3

\* The absent argument (Python None): no str is equal to it.
None == <<"<None>">>

RECURSIVE Pow10(_)
Pow10(n) == IF n = 0 THEN 1 ELSE 10 * Pow10(n - 1)

\* The value of a run of decimal digits.
RECURSIVE DigitsVal(_)
DigitsVal(s) ==
    IF s = <<>> THEN 0
    ELSE 10 * DigitsVal(SubSeq(s, 1, Len(s) - 1)) + DigitVal(s[Len(s)])

AllIn(s, set) == \A i \in 1..Len(s) : s[i] \in set

\* str.strip()
RECURSIVE LStrip(_)
LStrip(s) ==
    IF s # <<>> /\ Head(s) \in Whitespace THEN LStrip(Tail(s)) ELSE s

RECURSIVE RStrip(_)
RStrip(s) ==
    IF s # <<>> /\ s[Len(s)] \in Whitespace
    THEN RStrip(SubSeq(s, 1, Len(s) - 1)) ELSE s

Strip(s) == RStrip(LStrip(s))

\* str.replace(c, '')
RECURSIVE Remove(_, _)
Remove(s, c) ==
    IF s = <<>> THEN <<>>
    ELSE IF Head(s) = c THEN Remove(Tail(s), c)
    ELSE <<Head(s)>> \o Remove(Tail(s), c)

\* str.split(c): the pieces between the occurrences of c.
RECURSIVE Split(_, _)
Split(s, c) ==
    IF \A i \in 1..Len(s) : s[i] # c THEN <<s>>
    ELSE LET k == CHOOSE i \in 1..Len(s) :
                      s[i] = c /\ \A j \in 1..(i - 1) : s[j] # c
         IN  <<SubSeq(s, 1, k - 1)>> \o Split(SubSeq(s, k + 1, Len(s)), c)

\* ------------------------------------------------------------- regexes
\* What a pattern ending in $ may be matched against: the string, or the
\* string without its final newline.
DollarTargets(s) ==
    {s} \cup (IF s # <<>> /\ s[Len(s)] = "\n"
              THEN {SubSeq(s, 1, Len(s) - 1)} ELSE {})

\* digits+ ( '.' digits{1,maxFrac} )? over the whole of t; maxFrac = 0
\* leaves the fraction's length open.
DecimalForm(t, maxFrac) ==
    \/ t # <<>> /\ AllIn(t, DecDigits)
    \/ \E k \in 2..(Len(t) - 1) :
          /\ t[k] = "."
          /\ AllIn(SubSeq(t, 1, k - 1), DecDigits)
          /\ AllIn(SubSeq(t, k + 1, Len(t)), DecDigits)
          /\ (maxFrac > 0 => Len(t) - k <= maxFrac)

\* re.match(r'^\d+(?:\.\d{1,3})?$', time_str)
DecimalSecondsMatch(s) == \E t \in DollarTargets(s) : DecimalForm(t, 3)

\* re.match(r'^\d+(?:\.\d+)?$', time_str)
PlainNumberMatch(s) == \E t \in DollarTargets(s) : DecimalForm(t, 0)

\* [0-5][0-9]: the first digit no longer optional.
SixtyField_TwoDigits(f) ==
    Len(f) = 2 /\ f[1] \in {"0", "1", "2", "3", "4", "5"} /\ f[2] \in AsciiDigits

\* [0-9]?[0-9]: the first digit no longer kept below 6.
SixtyField_AnyDigits(f) == Len(f) \in {1, 2} /\ AllIn(f, AsciiDigits)

\* [0-5]?[0-9]
SixtyField(f) ==
    \/ Len(f) = 1 /\ f[1] \in AsciiDigits
    \/ Len(f) = 2 /\ f[1] \in {"0", "1", "2", "3", "4", "5"} /\ f[2] \in AsciiDigits

\* Whether time_pattern matches the whole of t with an hours group of lh
\* characters, a minutes group of lm, a seconds group of ls and a fraction of
\* lf (0: the optional group takes no part).
PatternFits(t, lh, lm, ls, lf) ==
    LET a == IF lh = 0 THEN 0 ELSE lh + 1
        b == a + (IF lm = 0 THEN 0 ELSE lm + 1)
    IN  /\ (lh > 0 => lm > 0)
        /\ Len(t) = b + ls + (IF lf = 0 THEN 0 ELSE lf + 1)
        /\ (lh > 0 => AllIn(SubSeq(t, 1, lh), AsciiDigits) /\ t[lh + 1] = ":")
        /\ (lm > 0 => SixtyField(SubSeq(t, a + 1, a + lm)) /\ t[a + lm + 1] = ":")
        /\ SixtyField(SubSeq(t, b + 1, b + ls))
        /\ (lf > 0 => /\ t[b + ls + 1] = "."
                      /\ AllIn(SubSeq(t, b + ls + 2, Len(t)), AsciiDigits))

\* match.groups(): (hours, minutes, seconds, milliseconds); a group that took
\* no part in the match is None.
PatternGroups(t, lh, lm, ls, lf) ==
    LET a == IF lh = 0 THEN 0 ELSE lh + 1
        b == a + (IF lm = 0 THEN 0 ELSE lm + 1)
    IN  [hours        |-> IF lh = 0 THEN None ELSE SubSeq(t, 1, lh),
         minutes      |-> IF lm = 0 THEN None ELSE SubSeq(t, a + 1, a + lm),
         seconds      |-> SubSeq(t, b + 1, b + ls),
         milliseconds |-> IF lf = 0 THEN None ELSE SubSeq(t, b + ls + 2, Len(t))]

\* re.match(time_pattern, time_str): the groups of every way the pattern
\* matches (the empty set: no match).
TimePatternGroups(s) ==
    UNION { { PatternGroups(t, l[1], l[2], l[3], l[4]) :
                l \in { x \in (0..2) \X (0..2) \X (1..2) \X (0..3) :
                          PatternFits(t, x[1], x[2], x[3], x[4]) } } :
            t \in DollarTargets(s) }

\* The fraction padded to four digits.
Ljust3_PadsToFour(f) ==
    f \o (IF Len(f) >= 4 THEN <<>> ELSE [i \in 1..(4 - Len(f)) |-> "0"])

\* str.ljust(3, '0')
Ljust3(f) ==
    f \o (IF Len(f) >= 3 THEN <<>> ELSE [i \in 1..(3 - Len(f)) |-> "0"])

\* ------------------------------------------------- parse_time_format
Accepted(v) == [ok |-> TRUE, err |-> "none", value |-> v]
BadParameter(kind) == [ok |-> FALSE, err |-> kind, value |-> None]

\* A parser that normalises: it returns the text with a fraction added when
\* the input has none.
ReturnedText_Normalised(stripped) ==
    IF \E i \in 1..Len(stripped) : stripped[i] = "." THEN stripped
    ELSE stripped \o <<".", "0", "0", "0">>

\* The text parse_time_format returns once a pattern has matched.
ReturnedText(stripped) == stripped

parse_time_format(time_str) ==
    IF time_str = <<>> \/ time_str = None THEN BadParameter("empty")
    ELSE LET stripped == Strip(time_str)
             groups   == TimePatternGroups(stripped)
         IN  IF DecimalSecondsMatch(stripped) THEN Accepted(ReturnedText(stripped))
             ELSE IF groups # {}
             THEN LET g == CHOOSE x \in groups : TRUE
                  IN  IF /\ g.milliseconds # None
                         /\ g.milliseconds # <<>>
                         /\ Len(g.milliseconds) <= 3
                         /\ DigitsVal(Ljust3(g.milliseconds)) > 999
                      THEN BadParameter("milliseconds")
                      ELSE Accepted(ReturnedText(stripped))
             ELSE BadParameter("format")

\* ------------------------------------------------ validate_time_range
\* Python truth of an Optional[str]: None and '' are both false.
Truthy(x) == x # None /\ x # <<>>

\* The mutual-exclusion check left out.
validate_time_range_NoConflict(start_time, duration, end_time) ==
    IF (Truthy(duration) \/ Truthy(end_time)) /\ ~Truthy(start_time)
    THEN "missing_start"
    ELSE "ok"

\* The start-time check left out.
validate_time_range_NoStart(start_time, duration, end_time) ==
    IF Truthy(duration) /\ Truthy(end_time) THEN "conflict" ELSE "ok"

\* A start time demanded in every call.
validate_time_range_StartAlways(start_time, duration, end_time) ==
    IF Truthy(duration) /\ Truthy(end_time) THEN "conflict"
    ELSE IF ~Truthy(start_time) THEN "missing_start"
    ELSE "ok"

\* The two checks in the other order.
validate_time_range_StartFirst(start_time, duration, end_time) ==
    IF (Truthy(duration) \/ Truthy(end_time)) /\ ~Truthy(start_time)
    THEN "missing_start"
    ELSE IF Truthy(duration) /\ Truthy(end_time) THEN "conflict"
    ELSE "ok"

validate_time_range(start_time, duration, end_time) ==
    IF Truthy(duration) /\ Truthy(end_time) THEN "conflict"
    ELSE IF (Truthy(duration) \/ Truthy(end_time)) /\ ~Truthy(start_time)
    THEN "missing_start"
    ELSE "ok"

\* ---------------------------------------------------- int() and float()
ValueError == [ok |-> FALSE, num |-> 0, exp |-> 0]
Number(n, e) == [ok |-> TRUE, num |-> n, exp |-> e]

\* The text after the blanks and the sign int() and float() allow.
Unsigned(s) ==
    LET t == Strip(s)
    IN  IF t # <<>> /\ Head(t) \in {"-", "+"} THEN Tail(t) ELSE t

Sign(s) ==
    LET t == Strip(s)
    IN  IF t # <<>> /\ Head(t) = "-" THEN -1 ELSE 1

\* int(text): blanks, a sign, decimal digits.
PyInt(s) ==
    LET u == Unsigned(s)
    IN  IF u # <<>> /\ AllIn(u, DecDigits)
        THEN Number(Sign(s) * DigitsVal(u), 0)
        ELSE ValueError

\* float(text): blanks, a sign, then digits, digits '.' digits?, or
\* '.' digits (no character of the inputs spells an exponent, inf or nan).
PyFloat(s) ==
    LET u    == Unsigned(s)
        dots == {k \in 1..Len(u) : u[k] = "."}
    IN  IF u # <<>> /\ AllIn(u, DecDigits) THEN Number(Sign(s) * DigitsVal(u), 0)
        ELSE IF Cardinality(dots) = 1 /\ Len(u) >= 2
        THEN LET k    == CHOOSE x \in dots : TRUE
                 int  == SubSeq(u, 1, k - 1)
                 frac == SubSeq(u, k + 1, Len(u))
             IN  IF AllIn(int, DecDigits) /\ AllIn(frac, DecDigits)
                 THEN Number(Sign(s) * (DigitsVal(int) * Pow10(Len(frac)) + DigitsVal(frac)),
                             Len(frac))
                 ELSE ValueError
        ELSE ValueError

\* whole + f, with whole an integer.
AddWhole(whole, f) == Number(whole * Pow10(f.exp) + f.num, f.exp)

\* ------------------------------------------------- _time_to_seconds
\* The hours weighted like minutes.
HoursMinutesSeconds_Hours60(parts) ==
    LET h == PyInt(parts[1])
        m == PyInt(parts[2])
        f == PyFloat(parts[3])
    IN  IF h.ok /\ m.ok /\ f.ok THEN AddWhole(h.num * 60 + m.num * 60, f)
        ELSE ValueError

\* int(parts[0]) * 3600 + int(parts[1]) * 60 + float(parts[2])
HoursMinutesSeconds(parts) ==
    LET h == PyInt(parts[1])
        m == PyInt(parts[2])
        f == PyFloat(parts[3])
    IN  IF h.ok /\ m.ok /\ f.ok THEN AddWhole(h.num * 3600 + m.num * 60, f)
        ELSE ValueError

\* The seconds of A:B read with int(), which takes no fraction.
MinutesSeconds_IntSeconds(parts) ==
    LET m == PyInt(parts[1])
        f == PyInt(parts[2])
    IN  IF m.ok /\ f.ok THEN AddWhole(m.num * 60, f) ELSE ValueError

\* A:B read as hours:minutes.
MinutesSeconds_AsHoursMinutes(parts) ==
    LET m == PyInt(parts[1])
        f == PyFloat(parts[2])
    IN  IF m.ok /\ f.ok
        THEN Number((m.num * 3600) * Pow10(f.exp) + f.num * 60, f.exp)
        ELSE ValueError

\* int(parts[0]) * 60 + float(parts[1])
MinutesSeconds(parts) ==
    LET m == PyInt(parts[1])
        f == PyFloat(parts[2])
    IN  IF m.ok /\ f.ok THEN AddWhole(m.num * 60, f) ELSE ValueError

_time_to_seconds(time_str) ==
    IF time_str = <<>> \/ time_str = None THEN Number(0, 0)
    ELSE IF PlainNumberMatch(time_str) THEN PyFloat(time_str)
    ELSE LET parts == Split(time_str, ":")
         IN  IF Len(parts) = 3 THEN HoursMinutesSeconds(parts)
             ELSE IF Len(parts) = 2 THEN MinutesSeconds(parts)
             ELSE PyFloat(time_str)

\* ------------------------------------------------------------- state
VARIABLES
    input,        \* the str handed to parse_time_format
    fields,       \* the components input was written from (NoFields: from none)
    stage,        \* "input", "parsed", "converted": how far the pipeline has run
    parsed,       \* what parse_time_format returned or raised
    secs,         \* what _time_to_seconds returned or raised on parsed.value
    rangeArgs,    \* <<start_time, duration, end_time>> given to validate_time_range
    rangeRes,     \* its outcome, "not_run" before the call
    cmd,          \* the subcommand of this invocation
    pc,           \* where the invocation stands
    config,       \* [format, quality]: the group options
    target,       \* the file_path / video_url argument
    fileExists,   \* whether target names an existing file
    outDirExists, \* whether the output directory exists
    start_time,   \* the handler's start_time, duration and end_time
    duration,
    end_time,
    error,        \* the click.BadParameter caught by the handler, "none" if none
    stdout,       \* what click.echo wrote, in order
    calls,        \* the calls made to the extractor's methods, in order
    ffmpegRuns,   \* the ffmpeg.run invocations, in order
    ydlRuns,      \* the YoutubeDL.download invocations, in order
    result,       \* what the extractor's method returned: "none" before
    stderr,       \* what the process wrote to standard error, in order
    outDirBefore, \* whether the output directory existed when the process started
    deps,         \* what is installed: the ffmpeg executable and the two libraries
    inputIsDir,   \* batch: whether directory_path names a directory
    entries,      \* batch: the entries at and below directory_path
    video_files,  \* batch: the entries batch_extract_local selected, in order
    next_file,    \* batch: the position of the for loop in video_files
    successful_extractions,
    failed_extractions,
    summary       \* batch: the two counts of the summary, once it is printed

pureVars == <<input, fields, stage, parsed, secs>>
rangeVars == <<rangeArgs, rangeRes>>
envVars == <<outDirBefore, deps>>
batchVars == <<inputIsDir, entries, video_files, next_file, successful_extractions,
               failed_extractions, summary>>
cliVars == <<cmd, pc, config, target, fileExists, outDirExists, start_time,
             duration, end_time, error, stdout, calls, ffmpegRuns, ydlRuns, result,
             stderr, envVars, batchVars>>
vars == <<input, fields, stage, parsed, secs, rangeArgs, rangeRes,
          cmd, pc, config, target, fileExists, outDirExists, start_time,
          duration, end_time, error, stdout, calls, ffmpegRuns, ydlRuns, result,
          stderr, outDirBefore, deps, inputIsDir, entries, video_files, next_file,
          successful_extractions, failed_extractions, summary>>

NotParsed == [ok |-> FALSE, err |-> "not_run", value |-> None]
NotConverted == [ok |-> FALSE, num |-> -1, exp |-> 0]
NoFields == [hours |-> None, minutes |-> None, seconds |-> None,
             milliseconds |-> None, lead |-> <<>>, trail |-> <<>>]

PureIdle ==
    /\ input = <<>>
    /\ fields = NoFields
    /\ stage = "idle"
    /\ parsed = NotParsed
    /\ secs = NotConverted

RangeIdle ==
    /\ rangeArgs = <<None, None, None>>
    /\ rangeRes = "idle"

\* Everything the program imports and runs is installed.
AllInstalled == [ffmpeg_exe |-> "installed", yt_dlp |-> TRUE, ffmpeg_python |-> TRUE]

NoSummary == [printed |-> FALSE, successful |-> 0, failed |-> 0]

BatchIdle ==
    /\ inputIsDir = FALSE
    /\ entries = {}
    /\ video_files = <<>>
    /\ next_file = 1
    /\ successful_extractions = <<>>
    /\ failed_extractions = <<>>
    /\ summary = NoSummary

CliIdle ==
    /\ cmd = "none"
    /\ pc = "idle"
    /\ config = [format |-> <<>>, quality |-> "high"]
    /\ target = <<>>
    /\ fileExists = FALSE
    /\ outDirExists = FALSE
    /\ start_time = None
    /\ duration = None
    /\ end_time = None
    /\ error = "none"
    /\ stdout = <<>>
    /\ calls = <<>>
    /\ ffmpegRuns = <<>>
    /\ ydlRuns = <<>>
    /\ result = "none"
    /\ stderr = <<>>
    /\ outDirBefore = FALSE
    /\ deps = AllInstalled
    /\ BatchIdle

\* ------------------------------------------------------------ inputs
SmallAlphabet == {"0", "5", "6", ":", ".", "-", " ", "a"}

ShortStrings == UNION { [1..n -> SmallAlphabet] : n \in 0..MaxLen }

HoursFields == {None, <<"0">>, <<"1">>, <<"0", "1">>, <<"1", "2">>, <<"9", "9">>,
                <<"1", "2", "3">>}
MinutesFields == {None, <<"0">>, <<"1">>, <<"0", "5">>, <<"2", "3">>, <<"5", "9">>,
                  <<"6", "0">>, <<"6", "1">>}
SecondsFields == {<<"0">>, <<"5">>, <<"3", "0">>, <<"4", "5">>, <<"5", "9">>,
                  <<"6", "0">>, <<"6", "1">>, <<"1", "0", "5">>, <<U3>>}
MillisFields == {None, <<"5">>, <<"5", "0">>, <<"6", "7", "8">>, <<"0", "0", "1">>,
                 <<"1", "2", "3">>, <<"9", "9", "9">>, <<"1", "2", "3", "4">>}
Pads == {<<<<>>, <<>>>>, <<<<" ">>, <<>>>>, <<<<>>, <<" ">>>>, <<<<" ">>, <<"\n">>>>}

FieldTuples ==
    { [hours |-> h, minutes |-> m, seconds |-> sc, milliseconds |-> f,
       lead |-> p[1], trail |-> p[2]] :
        h \in HoursFields, m \in {x \in MinutesFields : x # None},
        sc \in SecondsFields, f \in MillisFields, p \in Pads }
    \cup
    { [hours |-> None, minutes |-> None, seconds |-> sc, milliseconds |-> f,
       lead |-> p[1], trail |-> p[2]] :
        sc \in SecondsFields, f \in MillisFields, p \in Pads }

\* The text [[hh:]mm:]ss[.ms] of the components, between its blanks.
Written(c) ==
    c.lead
    \o (IF c.hours = None THEN <<>> ELSE c.hours \o <<":">>)
    \o (IF c.minutes = None THEN <<>> ELSE c.minutes \o <<":">>)
    \o c.seconds
    \o (IF c.milliseconds = None THEN <<>> ELSE <<".">> \o c.milliseconds)
    \o c.trail

\* ------------------------------------- the parser and the converter alone
InitParse ==
    /\ \/ \E c \in FieldTuples : input = Written(c) /\ fields = c
       \/ input \in ShortStrings /\ fields = NoFields
    /\ stage = "input"
    /\ parsed = NotParsed
    /\ secs = NotConverted
    /\ RangeIdle
    /\ CliIdle

\* parse_time_format(input)
ParseStep ==
    /\ stage = "input"
    /\ parsed' = parse_time_format(input)
    /\ stage' = "parsed"
    /\ UNCHANGED <<input, fields, secs, rangeVars, cliVars>>

\* _time_to_seconds on the text the parser returned
ConvertStep ==
    /\ stage = "parsed"
    /\ parsed.ok
    /\ secs' = _time_to_seconds(parsed.value)
    /\ stage' = "converted"
    /\ UNCHANGED <<input, fields, parsed, rangeVars, cliVars>>

NextParse == ParseStep \/ ConvertStep

SpecParse == InitParse /\ [][NextParse]_vars

\* -------------------------------------------- the range validator alone
RangeValues == {None, <<>>, <<"1", ":", "0", "0">>, <<"3", "0">>, <<"a", "b", "c">>}

InitRange ==
    /\ rangeArgs \in RangeValues \X RangeValues \X RangeValues
    /\ rangeRes = "not_run"
    /\ PureIdle
    /\ CliIdle

\* validate_time_range(start_time, duration, end_time)
ValidateStep ==
    /\ rangeRes = "not_run"
    /\ rangeRes' = validate_time_range(rangeArgs[1], rangeArgs[2], rangeArgs[3])
    /\ UNCHANGED <<rangeArgs, pureVars, cliVars>>

NextRange == ValidateStep

SpecRange == InitRange /\ [][NextRange]_vars

\* --------------------------------------------------- AudioExtractor
\* self.quality_settings
QualitySettings(quality) ==
    CASE quality = "high"   -> [bitrate |-> "320k", sample_rate |-> "48000"]
      [] quality = "medium" -> [bitrate |-> "192k", sample_rate |-> "44100"]
      [] quality = "low"    -> [bitrate |-> "128k", sample_rate |-> "44100"]

\* Path(name).stem: the name without its last suffix; a dot that opens or
\* ends the name starts no suffix.
PathStem(name) ==
    LET dots == {i \in 1..Len(name) : name[i] = "."}
        k    == IF dots = {} THEN 0 ELSE CHOOSE i \in dots : \A j \in dots : j <= i
    IN  IF 1 < k /\ k < Len(name) THEN SubSeq(name, 1, k - 1) ELSE name

\* The times lose their dots as well as their colons.
OutputFilename_DotsRemoved(input_file, start, dur, end, audio_format) ==
    IF Truthy(start)
    THEN PathStem(input_file) \o <<"_">> \o Remove(Remove(start, ":"), ".")
         \o (IF Truthy(dur) THEN <<"_", "d">> \o Remove(Remove(dur, ":"), ".")
             ELSE IF Truthy(end) THEN <<"_", "t", "o">> \o Remove(Remove(end, ":"), ".")
             ELSE <<>>)
         \o <<".">> \o audio_format
    ELSE PathStem(input_file) \o <<".">> \o audio_format

\* A duration or an end is written into the name even without a start.
OutputFilename_TaggedWithoutStart(input_file, start, dur, end, audio_format) ==
    PathStem(input_file)
    \o (IF Truthy(start) THEN <<"_">> \o Remove(start, ":") ELSE <<>>)
    \o (IF Truthy(dur) THEN <<"_", "d">> \o Remove(dur, ":")
        ELSE IF Truthy(end) THEN <<"_", "t", "o">> \o Remove(end, ":")
        ELSE <<>>)
    \o <<".">> \o audio_format

\* output_filename of extract_from_local_file
OutputFilename(input_file, start, dur, end, audio_format) ==
    IF Truthy(start)
    THEN PathStem(input_file) \o <<"_">> \o Remove(start, ":")
         \o (IF Truthy(dur) THEN <<"_", "d">> \o Remove(dur, ":")
             ELSE IF Truthy(end) THEN <<"_", "t", "o">> \o Remove(end, ":")
             ELSE <<>>)
         \o <<".">> \o audio_format
    ELSE PathStem(input_file) \o <<".">> \o audio_format

\* 't' is passed whenever there is a duration, an end or not.
FfmpegArguments_DurationWins(input_file, start, dur, end, cfg) ==
    [input         |-> input_file,
     ss            |-> IF Truthy(start) THEN start ELSE None,
     output        |-> OutputFilename(input_file, start, dur, end, cfg.format),
     acodec        |-> IF cfg.format = <<"m", "p", "3">> THEN "libmp3lame" ELSE "None",
     audio_bitrate |-> QualitySettings(cfg.quality).bitrate,
     ar            |-> QualitySettings(cfg.quality).sample_rate,
     t             |-> IF Truthy(dur) THEN dur ELSE None,
     to            |-> IF Truthy(end) /\ ~Truthy(dur) THEN end ELSE None]

\* The ffmpeg.input / ffmpeg.output arguments of extract_from_local_file;
\* None: the argument is not passed.
FfmpegArguments(input_file, start, dur, end, cfg) ==
    [input         |-> input_file,
     ss            |-> IF Truthy(start) THEN start ELSE None,
     output        |-> OutputFilename(input_file, start, dur, end, cfg.format),
     acodec        |-> IF cfg.format = <<"m", "p", "3">> THEN "libmp3lame" ELSE "None",
     audio_bitrate |-> QualitySettings(cfg.quality).bitrate,
     ar            |-> QualitySettings(cfg.quality).sample_rate,
     t             |-> IF Truthy(dur) /\ ~Truthy(end) THEN dur ELSE None,
     to            |-> IF Truthy(end) /\ ~Truthy(dur) THEN end ELSE None]

\* a + b of two floats.
AddFloats(a, b) ==
    IF a.exp >= b.exp THEN Number(a.num + b.num * Pow10(a.exp - b.exp), a.exp)
    ELSE Number(a.num * Pow10(b.exp - a.exp) + b.num, b.exp)

\* No number: the key is not in the range, or there is no range.
NoNumber == [ok |-> FALSE, num |-> 0, exp |-> 0]

\* The range ends at the converted duration, not at start + duration.
DownloadRanges_EndIsDuration(start, dur, end) ==
    LET s == _time_to_seconds(start)
        d == _time_to_seconds(dur)
        e == _time_to_seconds(end)
    IN  IF ~Truthy(start)
        THEN [raised |-> FALSE, set |-> FALSE, start_time |-> NoNumber, end_time |-> NoNumber]
        ELSE IF Truthy(dur)
        THEN [raised |-> ~(s.ok /\ d.ok), set |-> s.ok /\ d.ok,
              start_time |-> IF s.ok /\ d.ok THEN s ELSE NoNumber,
              end_time |-> IF s.ok /\ d.ok THEN d ELSE NoNumber]
        ELSE IF Truthy(end)
        THEN [raised |-> ~(s.ok /\ e.ok), set |-> s.ok /\ e.ok,
              start_time |-> IF s.ok /\ e.ok THEN s ELSE NoNumber,
              end_time |-> IF s.ok /\ e.ok THEN e ELSE NoNumber]
        ELSE [raised |-> ~s.ok, set |-> s.ok,
              start_time |-> IF s.ok THEN s ELSE NoNumber, end_time |-> NoNumber]

\* ydl_opts['download_ranges'] of extract_from_url; raised: a conversion
\* raised ValueError.
DownloadRanges(start, dur, end) ==
    LET s == _time_to_seconds(start)
        d == _time_to_seconds(dur)
        e == _time_to_seconds(end)
    IN  IF ~Truthy(start)
        THEN [raised |-> FALSE, set |-> FALSE, start_time |-> NoNumber, end_time |-> NoNumber]
        ELSE IF Truthy(dur)
        THEN IF s.ok /\ d.ok
             THEN [raised |-> FALSE, set |-> TRUE, start_time |-> s,
                   end_time |-> AddFloats(s, d)]
             ELSE [raised |-> TRUE, set |-> FALSE, start_time |-> NoNumber,
                   end_time |-> NoNumber]
        ELSE IF Truthy(end)
        THEN IF s.ok /\ e.ok
             THEN [raised |-> FALSE, set |-> TRUE, start_time |-> s, end_time |-> e]
             ELSE [raised |-> TRUE, set |-> FALSE, start_time |-> NoNumber,
                   end_time |-> NoNumber]
        ELSE IF s.ok
             THEN [raised |-> FALSE, set |-> TRUE, start_time |-> s, end_time |-> NoNumber]
             ELSE [raised |-> TRUE, set |-> FALSE, start_time |-> NoNumber,
                   end_time |-> NoNumber]

\* ------------------------------------- one invocation of local or url
CliTimes == {None, <<>>, <<"1", ":", "3", "0">>, <<"3", "0", ".", "7", "5", "0">>,
             <<"1", ":", "2", "3", ".", "4", "5", "6">>,
             <<" ", "5", " ">>, <<"a", "b", "c">>, <<"1", ":", "6", "1">>}

Configs == {[format |-> <<"m", "p", "3">>, quality |-> "high"],
            [format |-> <<"f", "l", "a", "c">>, quality |-> "medium"]}

VideoFile == <<"v", ".", "m", "p", "4">>
VideoUrl == <<"u">>

Init ==
    /\ cmd \in {"local", "url"}
    /\ pc = "cli"
    /\ config \in Configs
    /\ target = IF cmd = "local" THEN VideoFile ELSE VideoUrl
    /\ fileExists \in (IF cmd = "local" THEN BOOLEAN ELSE {FALSE})
    /\ outDirExists \in BOOLEAN
    /\ start_time \in CliTimes
    /\ duration \in CliTimes
    /\ end_time \in CliTimes
    /\ error = "none"
    /\ stdout = <<>>
    /\ calls = <<>>
    /\ ffmpegRuns = <<>>
    /\ ydlRuns = <<>>
    /\ result = "none"
    /\ stderr = <<>>
    /\ outDirBefore = outDirExists
    /\ deps = AllInstalled
    /\ BatchIdle
    /\ PureIdle
    /\ RangeIdle

\* cli(): the group callback builds the AudioExtractor, which creates the
\* output directory, and prints the configuration; click then invokes the
\* subcommand.
cli ==
    /\ pc = "cli"
    /\ outDirExists' = TRUE
    /\ stdout' = Append(stdout, "configuration")
    /\ pc' = CASE cmd \in {"local", "url"} -> "parse_start"
             [] cmd = "batch" -> "batch"
             [] cmd = "check-dependencies" -> "check_ffmpeg"
    /\ UNCHANGED <<cmd, config, target, fileExists, start_time, duration, end_time,
                   error, calls, ffmpegRuns, ydlRuns, result, pureVars, rangeVars,
                   stderr, envVars, batchVars>>

\* if start_time: start_time = parse_time_format(start_time)
ParseStartTime ==
    /\ pc = "parse_start"
    /\ LET r == parse_time_format(start_time)
       IN  IF ~Truthy(start_time)
           THEN pc' = "parse_duration" /\ UNCHANGED <<start_time, error>>
           ELSE IF r.ok
           THEN pc' = "parse_duration" /\ start_time' = r.value /\ UNCHANGED error
           ELSE pc' = "except" /\ error' = r.err /\ UNCHANGED start_time
    /\ UNCHANGED <<cmd, config, target, fileExists, outDirExists, duration, end_time,
                   stdout, calls, ffmpegRuns, ydlRuns, result, pureVars, rangeVars,
                   stderr, envVars, batchVars>>

\* if duration: duration = parse_time_format(duration)
ParseDuration ==
    /\ pc = "parse_duration"
    /\ LET r == parse_time_format(duration)
       IN  IF ~Truthy(duration)
           THEN pc' = "parse_end" /\ UNCHANGED <<duration, error>>
           ELSE IF r.ok
           THEN pc' = "parse_end" /\ duration' = r.value /\ UNCHANGED error
           ELSE pc' = "except" /\ error' = r.err /\ UNCHANGED duration
    /\ UNCHANGED <<cmd, config, target, fileExists, outDirExists, start_time, end_time,
                   stdout, calls, ffmpegRuns, ydlRuns, result, pureVars, rangeVars,
                   stderr, envVars, batchVars>>

\* if end_time: end_time = parse_time_format(end_time)
ParseEndTime ==
    /\ pc = "parse_end"
    /\ LET r == parse_time_format(end_time)
       IN  IF ~Truthy(end_time)
           THEN pc' = "validate" /\ UNCHANGED <<end_time, error>>
           ELSE IF r.ok
           THEN pc' = "validate" /\ end_time' = r.value /\ UNCHANGED error
           ELSE pc' = "except" /\ error' = r.err /\ UNCHANGED end_time
    /\ UNCHANGED <<cmd, config, target, fileExists, outDirExists, start_time, duration,
                   stdout, calls, ffmpegRuns, ydlRuns, result, pureVars, rangeVars,
                   stderr, envVars, batchVars>>

\* validate_time_range(start_time, duration, end_time)
ValidateRange ==
    /\ pc = "validate"
    /\ LET r == validate_time_range(start_time, duration, end_time)
       IN  IF r = "ok"
           THEN pc' = "extract" /\ UNCHANGED error
           ELSE pc' = "except" /\ error' = r
    /\ UNCHANGED <<cmd, config, target, fileExists, outDirExists, start_time, duration,
                   end_time, stdout, calls, ffmpegRuns, ydlRuns, result, pureVars,
                   rangeVars,
                   stderr, envVars, batchVars>>

\* The handler goes on to the extractor after reporting the error.
ReportBadParameter_NoReturn ==
    /\ pc = "except"
    /\ stdout' = Append(stdout, "Error: " \o error)
    /\ pc' = "extract"
    /\ UNCHANGED <<cmd, config, target, fileExists, outDirExists, start_time, duration,
                   end_time, error, calls, ffmpegRuns, ydlRuns, result, pureVars,
                   rangeVars,
                   stderr, envVars, batchVars>>

\* except click.BadParameter as e: click.echo(...); return
ReportBadParameter ==
    /\ pc = "except"
    /\ stdout' = Append(stdout, "Error: " \o error)
    /\ pc' = "done"
    /\ UNCHANGED <<cmd, config, target, fileExists, outDirExists, start_time, duration,
                   end_time, error, calls, ffmpegRuns, ydlRuns, result, pureVars,
                   rangeVars,
                   stderr, envVars, batchVars>>

ExtractorCall(method) ==
    [method |-> method, target |-> target, start_time |-> start_time,
     duration |-> duration, end_time |-> end_time]

\* The method runs ffmpeg without looking whether the input exists.
extract_from_local_file_NoExistenceCheck ==
    /\ pc = "extract"
    /\ cmd = "local"
    /\ calls' = Append(calls, ExtractorCall("extract_from_local_file"))
    /\ \E outcome \in {"extracted", "FFmpeg error", "Error"} :
         /\ ffmpegRuns' = Append(ffmpegRuns,
                FfmpegArguments(target, start_time, duration, end_time, config))
         /\ stdout' = stdout \o <<"Extracting audio", outcome>>
         /\ result' = IF outcome = "extracted" /\ fileExists THEN "True" ELSE "False"
    /\ pc' = "done"
    /\ UNCHANGED <<cmd, config, target, fileExists, outDirExists, start_time, duration,
                   end_time, error, ydlRuns, pureVars, rangeVars,
                   stderr, envVars, batchVars>>

\* extractor.extract_from_local_file(file_path, start_time, duration, end_time):
\* the existence check, then ffmpeg, which succeeds or raises.
extract_from_local_file ==
    /\ pc = "extract"
    /\ cmd = "local"
    /\ calls' = Append(calls, ExtractorCall("extract_from_local_file"))
    /\ IF ~fileExists
       THEN /\ stdout' = Append(stdout, "Error: file not found")
            /\ result' = "False"
            /\ UNCHANGED ffmpegRuns
       ELSE \E outcome \in {"extracted", "FFmpeg error", "Error"} :
            /\ ffmpegRuns' = Append(ffmpegRuns,
                   FfmpegArguments(target, start_time, duration, end_time, config))
            /\ stdout' = stdout \o <<"Extracting audio", outcome>>
            /\ result' = IF outcome = "extracted" THEN "True" ELSE "False"
    /\ pc' = "done"
    /\ UNCHANGED <<cmd, config, target, fileExists, outDirExists, start_time, duration,
                   end_time, error, ydlRuns, pureVars, rangeVars,
                   stderr, envVars, batchVars>>

\* extractor.extract_from_url(video_url, start_time, duration, end_time): the
\* range in seconds, then the download, which succeeds or raises.  A
\* ValueError of the conversion is caught nowhere.
extract_from_url ==
    /\ pc = "extract"
    /\ cmd = "url"
    /\ calls' = Append(calls, ExtractorCall("extract_from_url"))
    /\ LET ranges == DownloadRanges(start_time, duration, end_time)
       IN  IF ranges.raised
           THEN /\ stdout' = Append(stdout, "Downloading")
                /\ stderr' = Append(stderr, "Traceback: ValueError")
                /\ pc' = "crashed"
                /\ UNCHANGED <<ydlRuns, result>>
           ELSE \E outcome \in {"downloaded", "Error downloading"} :
                /\ ydlRuns' = Append(ydlRuns,
                       [url |-> target, download_ranges |-> ranges,
                        preferredcodec |-> config.format,
                        bitrate |-> QualitySettings(config.quality).bitrate])
                /\ stdout' = stdout \o <<"Downloading", outcome>>
                /\ result' = IF outcome = "downloaded" THEN "True" ELSE "False"
                /\ pc' = "done"
                /\ UNCHANGED stderr
    /\ UNCHANGED <<cmd, config, target, fileExists, outDirExists, start_time, duration,
                   end_time, error, ffmpegRuns, pureVars, rangeVars,
                   envVars, batchVars>>

Next ==
    \/ cli
    \/ ParseStartTime
    \/ ParseDuration
    \/ ParseEndTime
    \/ ValidateRange
    \/ ReportBadParameter
    \/ extract_from_local_file
    \/ extract_from_url

Spec == Init /\ [][Next]_vars

\* The exit status of the process: cli() returns and the interpreter exits
\* with 0, or an exception nobody caught ends it with 1; -1 while it runs.
ExitCode ==
    CASE pc = "done"    -> 0
      [] pc = "crashed" -> 1
      [] OTHER          -> -1

\* --------------------------------------------- one invocation of batch
MaxEntries == 3

UpperLetters == <<"A", "B", "C", "D", "E", "F", "G", "H", "I", "J", "K", "L", "M",
                  "N", "O", "P", "Q", "R", "S", "T", "U", "V", "W", "X", "Y", "Z">>
LowerLetters == <<"a", "b", "c", "d", "e", "f", "g", "h", "i", "j", "k", "l", "m",
                  "n", "o", "p", "q", "r", "s", "t", "u", "v", "w", "x", "y", "z">>

\* str.lower()
Lower(s) ==
    [i \in 1..Len(s) |->
        IF \E k \in 1..Len(UpperLetters) : UpperLetters[k] = s[i]
        THEN LowerLetters[CHOOSE k \in 1..Len(UpperLetters) : UpperLetters[k] = s[i]]
        ELSE s[i]]

\* Path(name).suffix: the last suffix of the name, its dot included; a dot
\* that opens or ends the name starts no suffix.
PathSuffix(name) ==
    LET dots == {i \in 1..Len(name) : name[i] = "."}
        k    == IF dots = {} THEN 0 ELSE CHOOSE i \in dots : \A j \in dots : j <= i
    IN  IF 1 < k /\ k < Len(name) THEN SubSeq(name, k, Len(name)) ELSE <<>>

\* video_extensions
VideoExtensions ==
    {<<".", "m", "p", "4">>, <<".", "a", "v", "i">>, <<".", "m", "k", "v">>,
     <<".", "m", "o", "v">>, <<".", "w", "m", "v">>, <<".", "f", "l", "v">>,
     <<".", "w", "e", "b", "m">>, <<".", "m", "4", "v">>}

\* input_path.iterdir(): the entries of the directory itself, files and
\* directories alike, none from further down.
Iterdir(es) == {f \in es : ~f.nested}

\* The suffixes are compared as they are spelled.
HasVideoSuffix_CaseSensitive(f) == PathSuffix(f.name) \in VideoExtensions

\* f.suffix.lower() in video_extensions
HasVideoSuffix(f) == Lower(PathSuffix(f.name)) \in VideoExtensions

\* [f for f in input_path.iterdir() if f.suffix.lower() in video_extensions]
SelectedVideoFiles(es) == {f \in Iterdir(es) : HasVideoSuffix(f)}

\* The orders in which iterdir() may yield the members of a set.
Orderings(S) ==
    {q \in [1..Cardinality(S) -> S] : \A i, j \in 1..Cardinality(S) : q[i] = q[j] => i = j}

Entry(name, kind, nested) == [name |-> name, kind |-> kind, nested |-> nested]

\* What directory_path may hold: video files, two of one stem, one with an
\* upper-case suffix; a text file; a video file in a subdirectory; a
\* directory named like a video.
DirectoryPool ==
    {Entry(<<"a", ".", "m", "p", "4">>, "file", FALSE),
     Entry(<<"a", ".", "a", "v", "i">>, "file", FALSE),
     Entry(<<"b", ".", "M", "K", "V">>, "file", FALSE),
     Entry(<<"c", ".", "t", "x", "t">>, "file", FALSE),
     Entry(<<"e", ".", "m", "o", "v">>, "file", TRUE),
     Entry(<<"f", ".", "w", "e", "b", "m">>, "dir", FALSE)}

VideoDirectory == <<"d">>

InitBatch ==
    /\ cmd = "batch"
    /\ pc = "cli"
    /\ config \in Configs
    /\ target = VideoDirectory
    /\ fileExists = FALSE
    /\ outDirExists \in BOOLEAN
    /\ start_time = None
    /\ duration = None
    /\ end_time = None
    /\ error = "none"
    /\ stdout = <<>>
    /\ calls = <<>>
    /\ ffmpegRuns = <<>>
    /\ ydlRuns = <<>>
    /\ result = "none"
    /\ stderr = <<>>
    /\ outDirBefore = outDirExists
    /\ deps = AllInstalled
    /\ inputIsDir \in BOOLEAN
    /\ entries \in IF inputIsDir
                  THEN {es \in SUBSET DirectoryPool : Cardinality(es) <= MaxEntries}
                  ELSE {{}}
    /\ video_files = <<>>
    /\ next_file = 1
    /\ successful_extractions = <<>>
    /\ failed_extractions = <<>>
    /\ summary = NoSummary
    /\ PureIdle
    /\ RangeIdle

\* batch_extract_local up to the loop: the directory check and the selection.
batch_extract_local_select ==
    /\ pc = "batch"
    /\ IF ~inputIsDir
       THEN /\ stdout' = Append(stdout, "Error: not a directory")
            /\ pc' = "done"
            /\ UNCHANGED video_files
       ELSE IF SelectedVideoFiles(entries) = {}
       THEN /\ stdout' = Append(stdout, "No video files found")
            /\ pc' = "done"
            /\ UNCHANGED video_files
       ELSE /\ video_files' \in Orderings(SelectedVideoFiles(entries))
            /\ stdout' = Append(stdout, "Found video file(s) for processing")
            /\ pc' = "batch_loop"
    /\ UNCHANGED <<cmd, config, target, fileExists, outDirExists, start_time, duration,
                   end_time, error, calls, ffmpegRuns, ydlRuns, result, stderr, envVars,
                   inputIsDir, entries, next_file, successful_extractions,
                   failed_extractions, summary, pureVars, rangeVars>>

\* The loop ends at the first file whose extraction fails.
batch_extract_local_loop_StopAtFailure ==
    /\ pc = "batch_loop"
    /\ LET video_file == video_files[next_file].name
       IN  /\ calls' = Append(calls, [method |-> "extract_from_local_file",
                                      target |-> video_file, start_time |-> None,
                                      duration |-> None, end_time |-> None])
           /\ \E outcome \in {"not found", "extracted", "FFmpeg error", "Error"} :
                /\ IF outcome = "not found"
                   THEN /\ stdout' = stdout \o <<"Processing", "Error: file not found">>
                        /\ UNCHANGED ffmpegRuns
                   ELSE /\ stdout' = stdout \o <<"Processing", "Extracting audio", outcome>>
                        /\ ffmpegRuns' = Append(ffmpegRuns,
                               FfmpegArguments(video_file, None, None, None, config))
                /\ result' = IF outcome = "extracted" THEN "True" ELSE "False"
                /\ IF outcome = "extracted"
                   THEN /\ successful_extractions' = Append(successful_extractions, video_file)
                        /\ UNCHANGED failed_extractions
                   ELSE /\ failed_extractions' = Append(failed_extractions, video_file)
                        /\ UNCHANGED successful_extractions
                /\ pc' = IF next_file = Len(video_files) \/ outcome # "extracted"
                         THEN "batch_summary" ELSE "batch_loop"
    /\ next_file' = next_file + 1
    /\ UNCHANGED <<cmd, config, target, fileExists, outDirExists, start_time, duration,
                   end_time, error, ydlRuns, stderr, envVars, inputIsDir, entries,
                   video_files, summary, pureVars, rangeVars>>

\* One turn of the for loop: extract_from_local_file(str(video_file)), which
\* finds no file, or runs ffmpeg, which succeeds or raises; the name goes to
\* the list its return value selects.
batch_extract_local_loop ==
    /\ pc = "batch_loop"
    /\ LET video_file == video_files[next_file].name
       IN  /\ calls' = Append(calls, [method |-> "extract_from_local_file",
                                      target |-> video_file, start_time |-> None,
                                      duration |-> None, end_time |-> None])
           /\ \E outcome \in {"not found", "extracted", "FFmpeg error", "Error"} :
                /\ IF outcome = "not found"
                   THEN /\ stdout' = stdout \o <<"Processing", "Error: file not found">>
                        /\ UNCHANGED ffmpegRuns
                   ELSE /\ stdout' = stdout \o <<"Processing", "Extracting audio", outcome>>
                        /\ ffmpegRuns' = Append(ffmpegRuns,
                               FfmpegArguments(video_file, None, None, None, config))
                /\ result' = IF outcome = "extracted" THEN "True" ELSE "False"
                /\ IF outcome = "extracted"
                   THEN /\ successful_extractions' = Append(successful_extractions, video_file)
                        /\ UNCHANGED failed_extractions
                   ELSE /\ failed_extractions' = Append(failed_extractions, video_file)
                        /\ UNCHANGED successful_extractions
    /\ next_file' = next_file + 1
    /\ pc' = IF next_file = Len(video_files) THEN "batch_summary" ELSE "batch_loop"
    /\ UNCHANGED <<cmd, config, target, fileExists, outDirExists, start_time, duration,
                   end_time, error, ydlRuns, stderr, envVars, inputIsDir, entries,
                   video_files, summary, pureVars, rangeVars>>

\* The summary after the loop: the two counts, then the failed files.
batch_extract_local_summary ==
    /\ pc = "batch_summary"
    /\ summary' = [printed |-> TRUE, successful |-> Len(successful_extractions),
                   failed |-> Len(failed_extractions)]
    /\ stdout' = stdout \o <<"Batch processing completed">>
                 \o (IF failed_extractions # <<>> THEN <<"Failed files">> ELSE <<>>)
    /\ pc' = "done"
    /\ UNCHANGED <<cmd, config, target, fileExists, outDirExists, start_time, duration,
                   end_time, error, calls, ffmpegRuns, ydlRuns, result, stderr, envVars,
                   inputIsDir, entries, video_files, next_file, successful_extractions,
                   failed_extractions, pureVars, rangeVars>>

NextBatch ==
    \/ cli
    \/ batch_extract_local_select
    \/ batch_extract_local_loop
    \/ batch_extract_local_summary

SpecBatch == InitBatch /\ [][NextBatch]_vars

\* -------------------------------- one invocation of check-dependencies
DependencyStates ==
    [ffmpeg_exe : {"installed", "fails", "timeout", "missing"},
     yt_dlp : BOOLEAN, ffmpeg_python : BOOLEAN]

InitDeps ==
    /\ cmd = "check-dependencies"
    /\ pc = "import"
    /\ config \in Configs
    /\ target = <<>>
    /\ fileExists = FALSE
    /\ outDirExists \in BOOLEAN
    /\ start_time = None
    /\ duration = None
    /\ end_time = None
    /\ error = "none"
    /\ stdout = <<>>
    /\ calls = <<>>
    /\ ffmpegRuns = <<>>
    /\ ydlRuns = <<>>
    /\ result = "none"
    /\ stderr = <<>>
    /\ outDirBefore = outDirExists
    /\ deps \in DependencyStates
    /\ BatchIdle
    /\ PureIdle
    /\ RangeIdle

\* import yt_dlp, import ffmpeg at the top of the module: a missing library
\* raises ModuleNotFoundError before cli() is reached.
module_imports ==
    /\ pc = "import"
    /\ IF deps.yt_dlp /\ deps.ffmpeg_python
       THEN pc' = "cli" /\ UNCHANGED stderr
       ELSE /\ pc' = "crashed"
            /\ stderr' = Append(stderr, "ModuleNotFoundError: No module named")
    /\ UNCHANGED <<cmd, config, target, fileExists, outDirExists, start_time, duration,
                   end_time, error, stdout, calls, ffmpegRuns, ydlRuns, result,
                   envVars, batchVars, pureVars, rangeVars>>

\* check_dependencies: subprocess.run(['ffmpeg', '-version'], timeout=10)
check_dependencies_ffmpeg ==
    /\ pc = "check_ffmpeg"
    /\ stdout' = stdout \o <<"Checking dependencies...">>
                 \o (CASE deps.ffmpeg_exe = "installed" -> <<"FFmpeg is installed">>
                       [] deps.ffmpeg_exe = "fails" -> <<"FFmpeg check failed">>
                       [] OTHER -> <<"FFmpeg not found in PATH">>)
    /\ pc' = "check_yt_dlp"
    /\ UNCHANGED <<cmd, config, target, fileExists, outDirExists, start_time, duration,
                   end_time, error, calls, ffmpegRuns, ydlRuns, result, stderr,
                   envVars, batchVars, pureVars, rangeVars>>

\* check_dependencies: import yt_dlp
check_dependencies_yt_dlp ==
    /\ pc = "check_yt_dlp"
    /\ stdout' = Append(stdout, IF deps.yt_dlp THEN "yt-dlp is installed"
                                ELSE "yt-dlp not installed")
    /\ pc' = "check_ffmpeg_python"
    /\ UNCHANGED <<cmd, config, target, fileExists, outDirExists, start_time, duration,
                   end_time, error, calls, ffmpegRuns, ydlRuns, result, stderr,
                   envVars, batchVars, pureVars, rangeVars>>

\* check_dependencies: import ffmpeg
check_dependencies_ffmpeg_python ==
    /\ pc = "check_ffmpeg_python"
    /\ stdout' = Append(stdout, IF deps.ffmpeg_python THEN "ffmpeg-python is installed"
                                ELSE "ffmpeg-python not installed")
    /\ pc' = "done"
    /\ UNCHANGED <<cmd, config, target, fileExists, outDirExists, start_time, duration,
                   end_time, error, calls, ffmpegRuns, ydlRuns, result, stderr,
                   envVars, batchVars, pureVars, rangeVars>>

NextDeps ==
    \/ module_imports
    \/ cli
    \/ check_dependencies_ffmpeg
    \/ check_dependencies_yt_dlp
    \/ check_dependencies_ffmpeg_python

SpecDeps == InitDeps /\ [][NextDeps]_vars

\* -------------------- the extractor's methods called with any arguments
MethodTimes == {None, <<>>, <<"1", ":", "3", "0">>, <<"3", "0", ".", "7", "5", "0">>,
                <<"1", ":", "0", "0", ":", "0", "5">>, <<"a", "b", "c">>}

\* An AudioExtractor has been built, which created the output directory,
\* and one of its two extraction methods is about to be called.
InitExtractor ==
    /\ cmd \in {"local", "url"}
    /\ pc = "extract"
    /\ config \in Configs
    /\ target = IF cmd = "local" THEN VideoFile ELSE VideoUrl
    /\ fileExists \in (IF cmd = "local" THEN BOOLEAN ELSE {FALSE})
    /\ outDirExists = TRUE
    /\ start_time \in MethodTimes
    /\ duration \in MethodTimes
    /\ end_time \in MethodTimes
    /\ error = "none"
    /\ stdout = <<>>
    /\ calls = <<>>
    /\ ffmpegRuns = <<>>
    /\ ydlRuns = <<>>
    /\ result = "none"
    /\ stderr = <<>>
    /\ outDirBefore \in BOOLEAN
    /\ deps = AllInstalled
    /\ BatchIdle
    /\ PureIdle
    /\ RangeIdle

NextExtractor ==
    \/ extract_from_local_file
    \/ extract_from_url

SpecExtractor == InitExtractor /\ [][NextExtractor]_vars

\* ===================================================================
\* Properties of the parser and the converter (SpecParse)
\* ===================================================================
CountOf(s, c) == Cardinality({i \in 1..Len(s) : s[i] = c})

\* A float of at most three decimals, in integer milliseconds.
Millis(x) == x.num * Pow10(3 - x.exp)

Unpadded(s) == s = <<>> \/ (Head(s) \notin Whitespace /\ s[Len(s)] \notin Whitespace)

\* The components a time text spells, read from its right end: seconds (up
\* to the '.') and the fraction, before them the minutes, before them the hours.
ComponentsOf(text) ==
    LET parts == Split(text, ":")
        n     == Len(parts)
        last  == Split(parts[n], ".")
    IN  [hours        |-> IF n >= 3 THEN parts[n - 2] ELSE None,
         minutes      |-> IF n >= 2 THEN parts[n - 1] ELSE None,
         seconds      |-> last[1],
         milliseconds |-> IF Len(last) >= 2 THEN last[2] ELSE None]

ValueOf(field) == IF field = None THEN 0 ELSE DigitsVal(field)

\* hours*3600 + minutes*60 + seconds + milliseconds/1000, in milliseconds.
ExpectedMillis(c) ==
    (ValueOf(c.hours) * 3600 + ValueOf(c.minutes) * 60 + ValueOf(c.seconds)) * 1000
    + (IF c.milliseconds = None THEN 0 ELSE DigitsVal(Ljust3(c.milliseconds)))

FromFields == fields # NoFields

FieldsUnpadded == [fields EXCEPT !.lead = <<>>, !.trail = <<>>]

\* C1 as stated: every accepted input is returned as it was given, blanks
\* around it included.
C1_ReturnsInputItself ==
    (stage # "input" /\ parsed.ok) => parsed.value = input

\* C1, amended: every accepted input is returned with its leading and
\* trailing blanks removed and otherwise unchanged; an input without such
\* blanks is returned as it was given.
C1_ReturnsTrimmedInput ==
    (stage # "input" /\ parsed.ok) =>
        /\ parsed.value = Strip(input)
        /\ Unpadded(parsed.value)
        /\ (Unpadded(input) => parsed.value = input)
        /\ (FromFields => parsed.value = Written(FieldsUnpadded))

C1_Witness ==
    /\ stage = "parsed"
    /\ parsed.ok
    /\ fields.lead = <<" ">>
    /\ fields.hours # None
    /\ parsed.value # input

\* The grammar of the claim, on the components a text was written from.
IsDigits(f, lo, hi) == f # None /\ Len(f) >= lo /\ Len(f) <= hi /\ AllIn(f, AsciiDigits)

BareDecimalFields(c) ==
    /\ c.hours = None /\ c.minutes = None
    /\ IsDigits(c.seconds, 1, Len(c.seconds))
    /\ (c.milliseconds = None \/ IsDigits(c.milliseconds, 1, 3))

SegmentedFields(c) ==
    /\ (c.hours = None \/ IsDigits(c.hours, 1, 2))
    /\ (c.minutes = None \/ (IsDigits(c.minutes, 1, 2) /\ DigitsVal(c.minutes) <= 59))
    /\ (c.hours # None => c.minutes # None)
    /\ IsDigits(c.seconds, 1, 2) /\ DigitsVal(c.seconds) <= 59
    /\ (c.milliseconds = None \/ IsDigits(c.milliseconds, 1, 3))

\* The text is spelled by its own components, and they are in the grammar.
InClaimedGrammar(text) ==
    LET c == ComponentsOf(text)
    IN  /\ text = Written([hours |-> c.hours, minutes |-> c.minutes,
                           seconds |-> c.seconds, milliseconds |-> c.milliseconds,
                           lead |-> <<>>, trail |-> <<>>])
        /\ (BareDecimalFields(c) \/ SegmentedFields(c))

\* C2: every text digit+ ['.' 1-3 digits], and every text [[hh:]mm:]ss[.ms]
\* with hh of 1-2 digits, mm and ss of 1-2 digits and value 0-59 and ms of
\* 1-3 digits, is accepted.
C2_GrammarCompleteness ==
    /\ (/\ stage # "input"
         /\ FromFields
         /\ fields.lead = <<>> /\ fields.trail = <<>>
         /\ (BareDecimalFields(fields) \/ SegmentedFields(fields)))
        => parsed.ok
    /\ (stage # "input" /\ InClaimedGrammar(input)) => parsed.ok

C2_Witness ==
    /\ stage = "parsed"
    /\ fields.lead = <<>> /\ fields.trail = <<>>
    /\ fields.hours # None
    /\ fields.milliseconds # None
    /\ Len(fields.minutes) = 1
    /\ SegmentedFields(fields)
    /\ parsed.ok

\* The integer part of a component is 60 or more.
AtLeast60(part) ==
    LET int == Split(part, ".")[1]
    IN  int # <<>> /\ AllIn(int, DecDigits) /\ DigitsVal(int) >= 60

\* The last component (seconds) or the one before it (minutes) is 60 or more.
MinuteOrSecondAtLeast60(text) ==
    LET parts == Split(text, ":")
        n     == Len(parts)
    IN  AtLeast60(parts[n]) \/ (n >= 2 /\ AtLeast60(parts[n - 1]))

\* A '.' followed by four digits or more.
MoreThan3Decimals(text) ==
    \E k \in 1..(Len(text) - 4) :
        text[k] = "." /\ AllIn(SubSeq(text, k + 1, k + 4), DecDigits)

NonNumericChar(text) ==
    \E i \in 1..Len(text) : text[i] \notin (DecDigits \cup {":", "."})

\* C3 as stated: an input with a minute or second component of 60 or more,
\* more than 3 fractional digits, a minus sign, a non-numeric character or
\* more than 2 colons is rejected.
C3_SoundnessOfEveryInput ==
    (/\ stage # "input"
     /\ \/ MinuteOrSecondAtLeast60(input)
        \/ MoreThan3Decimals(input)
        \/ CountOf(input, "-") > 0
        \/ NonNumericChar(input)
        \/ CountOf(input, ":") > 2)
    => ~parsed.ok

\* C3, amended: with the leading and trailing blanks of the input set
\* aside, an input is rejected when it has a colon and a minute or second
\* component of 60 or more, or more than 3 fractional digits, or a minus
\* sign, or a character that is no digit, ':' or '.', or more than 2 colons.
C3_SoundnessOfTrimmedInput ==
    LET t == Strip(input)
    IN  (/\ stage # "input"
         /\ \/ CountOf(t, ":") >= 1 /\ MinuteOrSecondAtLeast60(t)
            \/ MoreThan3Decimals(t)
            \/ CountOf(t, "-") > 0
            \/ NonNumericChar(t)
            \/ CountOf(t, ":") > 2)
        => ~parsed.ok

C3_Witness ==
    /\ stage = "parsed"
    /\ ~parsed.ok
    /\ fields.hours = <<"1">>
    /\ fields.minutes = <<"6", "1">>
    /\ fields.seconds = <<"4", "5">>
    /\ fields.milliseconds = None
    /\ fields.lead = <<>> /\ fields.trail = <<>>

\* C4: an accepted text A:B[.ms] has A and B of value 0-59 and converts to
\* A*60 + B(.ms) seconds, A being minutes and B seconds.
C4_TwoComponentsAreMinutesSeconds ==
    (stage # "input" /\ parsed.ok /\ CountOf(parsed.value, ":") = 1) =>
        LET c == ComponentsOf(parsed.value)
        IN  /\ IsDigits(c.minutes, 1, 2) /\ DigitsVal(c.minutes) <= 59
            /\ IsDigits(c.seconds, 1, 2) /\ DigitsVal(c.seconds) <= 59
            /\ (FromFields => /\ fields.hours = None
                              /\ c.minutes = fields.minutes
                              /\ c.seconds = fields.seconds)
            /\ (stage = "converted" =>
                    /\ secs.ok
                    /\ secs.exp <= 3
                    /\ Millis(secs) = DigitsVal(c.minutes) * 60000
                                      + DigitsVal(c.seconds) * 1000
                                      + ValueOf(IF c.milliseconds = None THEN None
                                                ELSE Ljust3(c.milliseconds)))

C4_Witness ==
    /\ stage = "converted"
    /\ input = <<"1", ":", "3", "0">>
    /\ secs.ok
    /\ Millis(secs) = 90000

\* C5: for every accepted text the converter returns hours*3600 +
\* minutes*60 + seconds + milliseconds/1000 of the text's components, an
\* absent component counting 0; compared in integer milliseconds.  It does
\* so on the text the parser returned and on the accepted input as given.
C5_ConversionCorrectness ==
    stage = "converted" =>
        /\ secs.ok
        /\ secs.exp <= 3
        /\ Millis(secs) = ExpectedMillis(ComponentsOf(parsed.value))
        /\ (FromFields => Millis(secs) = ExpectedMillis(fields))
        /\ LET raw == _time_to_seconds(input)
           IN  raw.ok /\ raw.exp <= 3 /\ Millis(raw) = Millis(secs)

C5_Witness ==
    /\ stage = "converted"
    /\ input = <<"1", ":", "2", "3", ":", "4", "5", ".", "6", "7", "8">>
    /\ Millis(secs) = 5025678

\* ===================================================================
\* Properties of the range validator (SpecRange)
\* ===================================================================
\* An argument that was given (not None), whatever its text.
Supplied(x) == x # None

\* An argument that was given and is not the empty text.
NonEmpty(x) == x # None /\ x # <<>>

Validated == rangeRes # "not_run" /\ rangeRes # "idle"

\* C6 as stated: a call with duration and end_time both given fails with
\* the conflicting-range error, whatever start_time is.
C6_ConflictWhenBothSupplied ==
    (Validated /\ Supplied(rangeArgs[2]) /\ Supplied(rangeArgs[3]))
    => rangeRes = "conflict"

\* C6, amended: a call with duration and end_time both given and non-empty
\* fails with the conflicting-range error, whatever start_time is.
C6_ConflictWhenBothNonEmpty ==
    (Validated /\ NonEmpty(rangeArgs[2]) /\ NonEmpty(rangeArgs[3]))
    => rangeRes = "conflict"

C6_Witness ==
    /\ rangeRes = "conflict"
    /\ rangeArgs[1] = None
    /\ NonEmpty(rangeArgs[2])

\* C7 as stated: a call with duration or end_time given and start_time
\* absent fails with the missing-start error.
C7_MissingStartWhenAnySupplied ==
    (/\ Validated
     /\ Supplied(rangeArgs[2]) \/ Supplied(rangeArgs[3])
     /\ ~Supplied(rangeArgs[1]))
    => rangeRes = "missing_start"

\* C7, amended: a call with exactly one of duration and end_time given and
\* non-empty, and start_time absent or empty, fails with the missing-start
\* error.
C7_MissingStartWhenOneNonEmpty ==
    (/\ Validated
     /\ NonEmpty(rangeArgs[2]) # NonEmpty(rangeArgs[3])
     /\ ~NonEmpty(rangeArgs[1]))
    => rangeRes = "missing_start"

C7_Witness ==
    /\ rangeRes = "missing_start"
    /\ rangeArgs[1] = None
    /\ rangeArgs[2] = None
    /\ NonEmpty(rangeArgs[3])

SuppliedPattern(t) == <<Supplied(t[1]), Supplied(t[2]), Supplied(t[3])>>
NonEmptyPattern(t) == <<NonEmpty(t[1]), NonEmpty(t[2]), NonEmpty(t[3])>>
RangeTriples == RangeValues \X RangeValues \X RangeValues

\* C8 as stated: the call succeeds exactly when neither failure condition
\* holds, and its outcome is the same for all calls in which the same
\* arguments are given.
C8_OutcomeBySupplied ==
    Validated =>
        /\ rangeRes = "ok" <=>
              /\ ~(Supplied(rangeArgs[2]) /\ Supplied(rangeArgs[3]))
              /\ ~((Supplied(rangeArgs[2]) \/ Supplied(rangeArgs[3]))
                   /\ ~Supplied(rangeArgs[1]))
        /\ \A t \in RangeTriples :
              SuppliedPattern(t) = SuppliedPattern(rangeArgs)
              => validate_time_range(t[1], t[2], t[3]) = rangeRes

\* C8, amended: the call succeeds exactly when neither failure condition
\* holds of the given, non-empty arguments, and its outcome is the same for
\* all calls in which the same arguments are given and non-empty.
C8_OutcomeByNonEmpty ==
    Validated =>
        /\ rangeRes = "ok" <=>
              /\ ~(NonEmpty(rangeArgs[2]) /\ NonEmpty(rangeArgs[3]))
              /\ ~((NonEmpty(rangeArgs[2]) \/ NonEmpty(rangeArgs[3]))
                   /\ ~NonEmpty(rangeArgs[1]))
        /\ \A t \in RangeTriples :
              NonEmptyPattern(t) = NonEmptyPattern(rangeArgs)
              => validate_time_range(t[1], t[2], t[3]) = rangeRes

C8_Witness ==
    /\ rangeRes = "ok"
    /\ rangeArgs = <<None, None, None>>

\* C9 as stated: with duration and end_time both given and start_time
\* absent, the error is the conflicting-range one.
C9_ConflictFirstWhenSupplied ==
    (/\ Validated
     /\ Supplied(rangeArgs[2]) /\ Supplied(rangeArgs[3])
     /\ ~Supplied(rangeArgs[1]))
    => rangeRes = "conflict"

\* C9, amended: with duration and end_time both given and non-empty and
\* start_time absent or empty, the error is the conflicting-range one, not
\* the missing-start one.
C9_ConflictFirstWhenNonEmpty ==
    (/\ Validated
     /\ NonEmpty(rangeArgs[2]) /\ NonEmpty(rangeArgs[3])
     /\ ~NonEmpty(rangeArgs[1]))
    => rangeRes = "conflict"

C9_Witness ==
    /\ rangeRes = "conflict"
    /\ rangeArgs[1] = <<>>
    /\ NonEmpty(rangeArgs[2])
    /\ NonEmpty(rangeArgs[3])

\* ===================================================================
\* Properties of an invocation of local or url (Spec)
\* ===================================================================
\* C10: once the parsing of a time option or the range validation has
\* failed, the invocation calls neither extract_from_local_file nor
\* extract_from_url and runs neither ffmpeg nor the downloader.
C10_NoCollaboratorAfterFailure ==
    error # "none" => /\ calls = <<>>
                      /\ ffmpegRuns = <<>>
                      /\ ydlRuns = <<>>
                      /\ result = "none"
                      /\ pc \in {"except", "done"}

C10_Witness ==
    /\ pc = "done"
    /\ cmd = "local"
    /\ fileExists
    /\ error = "conflict"
    /\ calls = <<>>

\* ===================================================================
\* Properties of one invocation: side effects, streams, arguments (Spec)
\* ===================================================================
\* The handler caught a click.BadParameter and returned.
ValidationFailed == pc = "done" /\ error # "none"

\* C11: when time parsing or range validation fails in a local or url
\* invocation, the filesystem is as it was before the invocation: the output
\* directory exists afterwards exactly if it existed before.
C11_NoSideEffectOnValidationFailure ==
    ValidationFailed => outDirExists = outDirBefore

InStream(stream, message) == \E i \in 1..Len(stream) : stream[i] = message

\* C12: when time validation fails in local or url, the validation error
\* message is written to the standard error stream.
C12_ValidationErrorOnStderr ==
    ValidationFailed => InStream(stderr, "Error: " \o error)

\* The time values of the i-th call to the extractor.
PassedTimes(i) == {calls[i].start_time, calls[i].duration, calls[i].end_time}

\* C13: no value that parse_time_format rejects, the empty string included,
\* is passed as start_time, duration or end_time to extract_from_local_file
\* or extract_from_url.
C13_EveryPassedValueValidated ==
    \A i \in 1..Len(calls) :
        \A v \in PassedTimes(i) : v # None => parse_time_format(v).ok

\* C14: in every call local or url makes to the extractor, duration and
\* end_time are not both present, and start_time is present if duration or
\* end_time is.
C14_CallsKeepRangeInvariants ==
    \A i \in 1..Len(calls) :
        /\ ~(calls[i].duration # None /\ calls[i].end_time # None)
        /\ (calls[i].duration # None \/ calls[i].end_time # None)
               => calls[i].start_time # None

\* The range the i-th download was given.
RangeOf(i) == ydlRuns[i].download_ranges

\* The range holds start_time alone, the converted start.
StartOnly(r, start) ==
    /\ r.set
    /\ r.start_time.ok /\ Millis(r.start_time) = Millis(_time_to_seconds(start))
    /\ ~r.end_time.ok

\* The range holds start_time, the converted start, and end_time of the
\* given milliseconds.
StartAndEnd(r, start, endMillis) ==
    /\ r.set
    /\ r.start_time.ok /\ Millis(r.start_time) = Millis(_time_to_seconds(start))
    /\ r.end_time.ok /\ Millis(r.end_time) = endMillis

TimesOf(c) == <<c.start_time, c.duration, c.end_time>>

\* The range the claim describes for the call c; given[k] tells whether the
\* k-th of start_time, duration, end_time counts as given.
RangeAsClaimed(r, c, given) ==
    IF ~given[1] THEN ~r.set
    ELSE IF given[2]
    THEN StartAndEnd(r, c.start_time, Millis(_time_to_seconds(c.start_time))
                                      + Millis(_time_to_seconds(c.duration)))
    ELSE IF given[3]
    THEN StartAndEnd(r, c.start_time, Millis(_time_to_seconds(c.end_time)))
    ELSE StartOnly(r, c.start_time)

\* C15 as stated: each download gets the range of its call, a value counting
\* as given whenever it was supplied.
C15_RangeOfSuppliedTimes ==
    \A i \in 1..Len(ydlRuns) : RangeAsClaimed(RangeOf(i), calls[i], SuppliedPattern(TimesOf(calls[i])))

\* C15: each download gets {start_time, end_time = start + duration} when
\* start and duration are non-empty, {start_time, end_time = the converted
\* end} when start and end are, {start_time} alone when only start is, and
\* no range when start is absent or empty; all in seconds, converted by
\* _time_to_seconds.
C15_RangeOfNonEmptyTimes ==
    \A i \in 1..Len(ydlRuns) : RangeAsClaimed(RangeOf(i), calls[i], NonEmptyPattern(TimesOf(calls[i])))

C15_Witness ==
    /\ pc = "done"
    /\ cmd = "url"
    /\ Len(ydlRuns) = 1
    /\ calls[1].start_time = <<"1", ":", "3", "0">>
    /\ calls[1].duration = <<"3", "0", ".", "7", "5", "0">>
    /\ Millis(RangeOf(1).start_time) = 90000
    /\ Millis(RangeOf(1).end_time) = 120750

Contains(s, sub) ==
    \E i \in 1..(Len(s) - Len(sub) + 1) : SubSeq(s, i, i + Len(sub) - 1) = sub

EndsWith(s, suffix) ==
    Len(s) >= Len(suffix) /\ SubSeq(s, Len(s) - Len(suffix) + 1, Len(s)) = suffix

\* local <existing file> --start-time 1:23.456 --duration 30.750 has returned.
MillisecondExample ==
    /\ cmd = "local"
    /\ pc = "done"
    /\ fileExists
    /\ start_time = <<"1", ":", "2", "3", ".", "4", "5", "6">>
    /\ duration = <<"3", "0", ".", "7", "5", "0">>
    /\ end_time = None

\* The example passed validation and ffmpeg was given an output name that
\* holds the segment and ends in '.' + the configured format.
ExampleNamed(segment) ==
    /\ error = "none"
    /\ Len(ffmpegRuns) = 1
    /\ Contains(ffmpegRuns[1].output, segment)
    /\ EndsWith(ffmpegRuns[1].output, <<".">> \o config.format)

\* C16 as stated: the example's output filename contains _123456_d30750.
C16_NameHoldsDigitsOnly ==
    MillisecondExample =>
        ExampleNamed(<<"_", "1", "2", "3", "4", "5", "6", "_", "d", "3", "0", "7", "5", "0">>)

\* C16: local with --start-time 1:23.456 and --duration 30.750 on an existing
\* file passes validation and produces an output filename that contains
\* _123.456_d30.750 (the colons removed, the dots kept) and has the
\* configured format as its extension.
C16_NameHoldsColonStrippedTimes ==
    MillisecondExample =>
        ExampleNamed(<<"_", "1", "2", "3", ".", "4", "5", "6",
                       "_", "d", "3", "0", ".", "7", "5", "0">>)

C16_Witness ==
    /\ MillisecondExample
    /\ config.format = <<"f", "l", "a", "c">>
    /\ Len(ffmpegRuns) = 1
    /\ ffmpegRuns[1].output = <<"v", "_", "1", "2", "3", ".", "4", "5", "6", "_", "d",
                                "3", "0", ".", "7", "5", "0", ".", "f", "l", "a", "c">>

\* ===================================================================
\* Properties of the extractor's methods (SpecExtractor)
\* ===================================================================
\* A time with every ':' removed.
WithoutColons(s) == SelectSeq(s, LAMBDA ch : ch # ":")

\* The name the claim spells out for input v.mp4; present[k] tells whether
\* the k-th of start, duration, end counts as present.
NameAsClaimed(c, present, format) ==
    <<"v">>
    \o (IF present[1]
        THEN <<"_">> \o WithoutColons(c.start_time)
             \o (IF present[2] THEN <<"_", "d">> \o WithoutColons(c.duration)
                 ELSE IF present[3] THEN <<"_", "t", "o">> \o WithoutColons(c.end_time)
                 ELSE <<>>)
        ELSE <<>>)
    \o <<".">> \o format

\* C17 as stated: the output filename is the claimed one, a value counting
\* as present whenever it was supplied.
C17_NameOfSuppliedTimes ==
    \A i \in 1..Len(ffmpegRuns) :
        ffmpegRuns[i].output
            = NameAsClaimed(calls[i], SuppliedPattern(TimesOf(calls[i])), config.format)

\* C17: the output filename built by extract_from_local_file is the input
\* stem, then '_' + start without its colons when start is present and
\* non-empty, then '_d' + duration without colons when duration is present
\* and non-empty, or else '_to' + end without colons when end is, then '.' +
\* format; without a non-empty start it is <stem>.<format> whatever duration
\* and end are.
C17_NameOfNonEmptyTimes ==
    \A i \in 1..Len(ffmpegRuns) :
        ffmpegRuns[i].output
            = NameAsClaimed(calls[i], NonEmptyPattern(TimesOf(calls[i])), config.format)

C17_Witness ==
    /\ pc = "done"
    /\ cmd = "local"
    /\ Len(ffmpegRuns) = 1
    /\ calls[1].start_time = None
    /\ calls[1].duration = <<"3", "0", ".", "7", "5", "0">>
    /\ ffmpegRuns[1].output = <<"v", ".", "m", "p", "3">>

\* ===================================================================
\* Properties of batch (SpecBatch)
\* ===================================================================
\* How often name occurs in a list of names.
Occurrences(list, name) == Cardinality({i \in 1..Len(list) : list[i] = name})

\* How often extract_from_local_file was called on the file of that name.
CallsOn(name) == Cardinality({i \in 1..Len(calls) : calls[i].target = name})

\* The loop of batch_extract_local has ended and the summary is printed.
BatchSummarised == cmd = "batch" /\ summary.printed

\* C18: once the batch is summarised, every selected video file has been
\* passed to extract_from_local_file exactly once, whatever the outcomes of
\* the others, its name is in exactly one of the successful and failed lists,
\* and the two counts of the summary add up to the number of selected files.
C18_FailureDoesNotHaltBatch ==
    BatchSummarised =>
        /\ \A k \in 1..Len(video_files) :
               /\ CallsOn(video_files[k].name) = 1
               /\ Occurrences(successful_extractions, video_files[k].name)
                  + Occurrences(failed_extractions, video_files[k].name) = 1
        /\ Len(calls) = Len(video_files)
        /\ summary.successful + summary.failed = Len(video_files)

\* Three files were selected; the first failed, the second succeeded, the
\* third failed.
C18_Witness ==
    /\ BatchSummarised
    /\ pc = "done"
    /\ Len(video_files) = 3
    /\ failed_extractions = <<video_files[1].name, video_files[3].name>>
    /\ successful_extractions = <<video_files[2].name>>
    /\ summary.successful = 1
    /\ summary.failed = 2

\* batch has returned after listing a directory.
BatchReturned == cmd = "batch" /\ pc = "done" /\ inputIsDir

Extracted(f) == CallsOn(f.name) >= 1

\* C19 as stated: extraction is applied to every file at or below the
\* directory whose extension is one of the eight listed, and to no entry
\* with another extension.
C19_ListedExtensionsBelowDirectory ==
    BatchReturned =>
        \A f \in entries :
            /\ (f.kind = "file" /\ PathSuffix(f.name) \in VideoExtensions) => Extracted(f)
            /\ PathSuffix(f.name) \notin VideoExtensions => ~Extracted(f)

\* C19: extraction is applied to exactly the entries directly in the given
\* directory whose extension, lower-cased, is one of .mp4 .avi .mkv .mov
\* .wmv .flv .webm .m4v; entries of subdirectories are not visited.
C19_ListedExtensionsInDirectory ==
    BatchReturned =>
        \A f \in entries :
            Extracted(f) <=> (~f.nested /\ Lower(PathSuffix(f.name)) \in VideoExtensions)

C19_Witness ==
    /\ BatchReturned
    /\ entries = {Entry(<<"b", ".", "M", "K", "V">>, "file", FALSE),
                  Entry(<<"c", ".", "t", "x", "t">>, "file", FALSE),
                  Entry(<<"e", ".", "m", "o", "v">>, "file", TRUE)}
    /\ Len(calls) = 1
    /\ calls[1].target = <<"b", ".", "M", "K", "V">>

\* ===================================================================
\* Properties of check-dependencies (SpecDeps)
\* ===================================================================
\* The process has ended.
Exited == ExitCode # -1

\* The line check_dependencies prints about each of the three.
FfmpegReport ==
    CASE deps.ffmpeg_exe = "installed" -> "FFmpeg is installed"
      [] deps.ffmpeg_exe = "fails"     -> "FFmpeg check failed"
      [] OTHER                         -> "FFmpeg not found in PATH"
YtDlpReport == IF deps.yt_dlp THEN "yt-dlp is installed" ELSE "yt-dlp not installed"
FfmpegPythonReport ==
    IF deps.ffmpeg_python THEN "ffmpeg-python is installed" ELSE "ffmpeg-python not installed"

\* C20: check-dependencies exits with code 0 whatever is installed, and has
\* then reported on standard output the presence or absence of the ffmpeg
\* executable, of yt-dlp and of ffmpeg-python.
C20_ExitsZeroAndReportsAll ==
    (cmd = "check-dependencies" /\ Exited) =>
        /\ ExitCode = 0
        /\ InStream(stdout, FfmpegReport)
        /\ InStream(stdout, YtDlpReport)
        /\ InStream(stdout, FfmpegPythonReport)

\* ===================================================================
\* Properties of the extraction and of the process (SpecExtractor, Spec)
\* ===================================================================
\* extract_from_local_file was called on a path that does not exist.
CalledOnMissingFile ==
    /\ cmd = "local"
    /\ ~fileExists
    /\ calls # <<>>

\* C21: when extract_from_local_file is called on a path that does not
\* exist, it reports the error and returns False, and ffmpeg is not run.
C21_ExistenceCheckedBeforeFfmpeg ==
    CalledOnMissingFile =>
        /\ ffmpegRuns = <<>>
        /\ result = "False"
        /\ InStream(stdout, "Error: file not found")

C21_Witness ==
    /\ CalledOnMissingFile
    /\ pc = "done"
    /\ calls[1].start_time = <<"1", ":", "3", "0">>
    /\ ffmpegRuns = <<>>
    /\ result = "False"

\* C22: the process exits with a non-zero code whenever the local or url
\* extraction failed, that is, whenever the extractor's method returned False.
C22_NonZeroExitOnFailedExtraction ==
    (cmd \in {"local", "url"} /\ Exited /\ result = "False") => ExitCode # 0

\* ===================================================================
\* Further properties of the parser and the converter (SpecParse)
\* ===================================================================
\* The empty text, or blanks only.
Blank(s) == \A i \in 1..Len(s) : s[i] \in Whitespace

\* C23: parse_time_format rejects the empty string and every
\* whitespace-only string, each with the 'Time parameter cannot be empty'
\* error and not with the invalid-format error.
C23_BlankRejectedAsEmpty ==
    (stage # "input" /\ Blank(input)) => (~parsed.ok /\ parsed.err = "empty")

\* C24: for no input does parse_time_format raise the 'Invalid
\* milliseconds ... Must be 0-999' error.
C24_MillisecondsErrorUnreachable ==
    stage # "input" => parsed.err # "milliseconds"

\* A segmented time with the largest fraction went through the check.
C24_Witness ==
    /\ stage = "parsed"
    /\ FromFields
    /\ fields.minutes = <<"5", "9">>
    /\ fields.seconds = <<"5", "9">>
    /\ fields.milliseconds = <<"9", "9", "9">>
    /\ parsed.ok

\* ===================================================================
\* Further properties of one invocation and of the extractor
\* ===================================================================
ValidationErrors == {"empty", "format", "milliseconds", "conflict", "missing_start"}

\* How many validation errors the handler has printed.
ErrorsReported ==
    Cardinality({i \in 1..Len(stdout) : \E e \in ValidationErrors : stdout[i] = "Error: " \o e})

\* The error of the earliest failing step, "ok" if none fails: the parse of
\* each supplied option in the order start_time, duration, end_time, then
\* validate_time_range.  (An option that parsed holds its stripped text,
\* which parses again.)
EarliestFailure ==
    IF Supplied(start_time) /\ ~parse_time_format(start_time).ok
    THEN parse_time_format(start_time).err
    ELSE IF Supplied(duration) /\ ~parse_time_format(duration).ok
    THEN parse_time_format(duration).err
    ELSE IF Supplied(end_time) /\ ~parse_time_format(end_time).ok
    THEN parse_time_format(end_time).err
    ELSE validate_time_range(start_time, duration, end_time)

\* The handler is past its try block.
ChecksOver == cmd \in {"local", "url"} /\ pc \in {"extract", "done", "crashed"}

\* C25: local and url parse start-time, duration and end-time in this order,
\* then validate the range, and stop at the first failure: exactly one error
\* is reported, that of the earliest failing step, and validate_time_range
\* is reached only when every supplied option parsed successfully.
C25_FirstFailureOnly ==
    /\ ChecksOver =>
           /\ error = (IF EarliestFailure = "ok" THEN "none" ELSE EarliestFailure)
           /\ pc = "done" => ErrorsReported = (IF error = "none" THEN 0 ELSE 1)
    /\ (cmd \in {"local", "url"} /\ pc = "validate") =>
           \A v \in {start_time, duration, end_time} :
               Supplied(v) => parse_time_format(v).ok

\* The trim arguments of the i-th ffmpeg run are those the claim describes
\* for its call; present[k] tells whether the k-th of start_time, duration,
\* end_time counts as present.
TrimAsClaimed(a, c, present) ==
    /\ (a.ss # None) <=> present[1]
    /\ a.ss # None => a.ss = c.start_time
    /\ (a.t # None) <=> (present[2] /\ ~present[3])
    /\ a.t # None => a.t = c.duration
    /\ (a.to # None) <=> (present[3] /\ ~present[2])
    /\ a.to # None => a.to = c.end_time
    /\ ~(a.t # None /\ a.to # None)

\* C26 as stated: every ffmpeg run has the trim arguments of its call, a
\* value counting as present whenever it was supplied.
C26_TrimOfSuppliedTimes ==
    \A i \in 1..Len(ffmpegRuns) :
        TrimAsClaimed(ffmpegRuns[i], calls[i], SuppliedPattern(TimesOf(calls[i])))

\* C26: in every ffmpeg run of extract_from_local_file, 'ss' is set, to
\* start_time unchanged, iff start_time is present and non-empty; 't' is set
\* iff duration is present and non-empty and end_time is not; 'to' is set
\* iff end_time is present and non-empty and duration is not; 't' and 'to'
\* are never both set.
C26_TrimOfNonEmptyTimes ==
    \A i \in 1..Len(ffmpegRuns) :
        TrimAsClaimed(ffmpegRuns[i], calls[i], NonEmptyPattern(TimesOf(calls[i])))

C26_Witness ==
    /\ cmd = "local"
    /\ pc = "done"
    /\ Len(ffmpegRuns) = 1
    /\ calls[1].start_time = <<"1", ":", "3", "0">>
    /\ calls[1].duration = <<"3", "0", ".", "7", "5", "0">>
    /\ calls[1].end_time = <<"1", ":", "0", "0", ":", "0", "5">>
    /\ ffmpegRuns[1].ss = <<"1", ":", "3", "0">>
    /\ ffmpegRuns[1].t = None
    /\ ffmpegRuns[1].to = None

\* C27: for every string parse_time_format accepts, _time_to_seconds of the
\* returned string raises nothing: the string is a plain number, or has two
\* or three ':'-separated parts that int() and float() convert.
C27_AcceptedTextConverts ==
    /\ (stage # "input" /\ parsed.ok) =>
           \/ PlainNumberMatch(parsed.value)
           \/ Len(Split(parsed.value, ":")) \in {2, 3}
    /\ stage = "converted" => secs.ok

C27_Witness ==
    /\ stage = "converted"
    /\ FromFields
    /\ fields.hours = None
    /\ fields.minutes = <<"2", "3">>
    /\ fields.seconds = <<"4", "5">>
    /\ fields.milliseconds = <<"1", "2", "3">>
    /\ fields.trail = <<"\n">>
    /\ secs.ok
    /\ Millis(secs) = 1425123

\* C28: within one batch run no two distinct input files are written to the
\* same output path: the ffmpeg runs of different inputs have different
\* output names in the output directory.
C28_BatchOutputsDistinct ==
    cmd = "batch" =>
        \A i, j \in 1..Len(ffmpegRuns) :
            ffmpegRuns[i].input # ffmpegRuns[j].input
                => ffmpegRuns[i].output # ffmpegRuns[j].output

====
